---- MODULE Spec2Model ----
(***************************************************************************)
(* Trend-service keyword pipelines:                                        *)
(*   services/trend-service/pytrends_fetch.py        (variant "basic")     *)
(*   services/trend-service/pytrends_fetch_DDONG.py  (variant "tiered")    *)
(* Python strings are sequences of one-character strings, Python values    *)
(* are records tagged by kind, a DataFrame is its column names and rows.   *)
(***************************************************************************)
EXTENDS Integers, Sequences, FiniteSets, TLC

\* ------------------------------------------------------------------ bounds
\* rows of a tabular response handed to the pipelines
MaxRows == 2
\* rows of a tabular response handed to the extractor on its own
MaxExtractRows == 2
\* longest list handed to the de-duplication on its own
MaxDedupLen == 5

\* ----------------------------------------------------------- Python values
None == [kind |-> "none"]
NaN == [kind |-> "nan"]
\* a cell whose truth value cannot be taken (bool() raises ValueError)
Unbool == [kind |-> "unbool"]
\* a cell whose access through row.get raises
Unget == [kind |-> "unget"]
PyStr(s) == [kind |-> "str", s |-> s]
PyInt(n) == [kind |-> "int", n |-> n]

DigitChars == <<"0", "1", "2", "3", "4", "5", "6", "7", "8", "9">>

RECURSIVE NatToStr(_)
NatToStr(n) ==
    IF n < 10 THEN <<DigitChars[n + 1]>>
    ELSE NatToStr(n \div 10) \o <<DigitChars[(n % 10) + 1]>>

\* str(v)
str(v) ==
    CASE v.kind = "str" -> v.s
      [] v.kind = "int" -> IF v.n < 0 THEN <<"-">> \o NatToStr(0 - v.n) ELSE NatToStr(v.n)
      [] v.kind = "nan" -> <<"n", "a", "n">>
      [] v.kind = "none" -> <<"N", "o", "n", "e">>
      [] OTHER -> <<"o", "b", "j">>

RECURSIVE lstrip(_)
lstrip(s) == IF s # <<>> /\ Head(s) = " " THEN lstrip(Tail(s)) ELSE s

RECURSIVE rstrip(_)
rstrip(s) == IF s # <<>> /\ s[Len(s)] = " " THEN rstrip(SubSeq(s, 1, Len(s) - 1)) ELSE s

\* s.strip()
strip(s) == rstrip(lstrip(s))

\* bool(v) raises
TruthRaises(v) == v.kind = "unbool"

\* bool(v), for a value whose truth value can be taken
Truthy(v) ==
    CASE v.kind = "none" -> FALSE
      [] v.kind = "str" -> v.s # <<>>
      [] v.kind = "int" -> v.n # 0
      [] OTHER -> TRUE

\* int(s): an optional sign, then decimal digits
IsDigit(c) == \E i \in 1..10 : DigitChars[i] = c

DigitVal(c) == (CHOOSE i \in 1..10 : DigitChars[i] = c) - 1

RECURSIVE DigitsVal(_)
DigitsVal(s) ==
    IF s = <<>> THEN 0 ELSE 10 * DigitsVal(SubSeq(s, 1, Len(s) - 1)) + DigitVal(s[Len(s)])

AllDigits(s) == s # <<>> /\ \A i \in 1..Len(s) : IsDigit(s[i])

int(s) ==
    LET t == strip(s)
        body == IF t # <<>> /\ Head(t) \in {"-", "+"} THEN Tail(t) ELSE t
    IN  IF ~AllDigits(body) THEN [raised |-> TRUE, value |-> 0]
        ELSE [raised |-> FALSE,
              value |-> IF Head(t) = "-" THEN 0 - DigitsVal(body) ELSE DigitsVal(body)]

\* -------------------------------------------------------------- DataFrames
DataFrame(cols, rows) == [kind |-> "df", columns |-> cols, rows |-> rows]

\* df.empty: no rows or no columns
Empty(df) == Len(df.rows) = 0 \/ Len(df.columns) = 0

\* every frame with the given columns, at most maxrows rows, cells from cells
Frames(cols, cells, maxrows) ==
    { DataFrame(cols, r) :
        r \in UNION { [1..n -> [1..Len(cols) -> cells]] : n \in 0..maxrows } }

\* position of the first column named c
ColIndex(cols, c) == CHOOSE i \in 1..Len(cols) : cols[i] = c /\ \A j \in 1..(i - 1) : cols[j] # c

HasCol(cols, c) == \E i \in 1..Len(cols) : cols[i] = c

\* row.get(c): the cell, None for a column the row lacks
RowGet(cols, row, c) == IF HasCol(cols, c) THEN row[ColIndex(cols, c)] ELSE None

\* a value returned, or an exception raised
Ok(v) == [raised |-> FALSE, value |-> v]
Raise == [raised |-> TRUE, value |-> <<>>]

\* faulty variant: the seen-set loop keeps every occurrence
Uniq_KeepsAll(ks, acc) == acc \o ks

\* de-duplication keeping first occurrences (the seen-set loop)
RECURSIVE Uniq(_, _)
Uniq(ks, acc) ==
    IF ks = <<>> THEN acc
    ELSE Uniq(Tail(ks),
              IF \E i \in 1..Len(acc) : acc[i] = Head(ks) THEN acc ELSE Append(acc, Head(ks)))

\* the seen-set loop of the YouTube-like tier: "if k and k not in seen"
UniqTruthy(ks) == Uniq(SelectSeq(ks, Truthy), <<>>)

\* -------------------------------------------- _safe_extract_keywords_from_df
PreferredCols == <<"query", "title", "keyword">>

\* faulty variant: the first column is not added as a fallback
candidate_cols_NoFallback(cols) == SelectSeq(PreferredCols, LAMBDA c : HasCol(cols, c))

candidate_cols(cols) ==
    SelectSeq(PreferredCols, LAMBDA c : HasCol(cols, c))
        \o (IF cols # <<>> THEN <<cols[1]>> ELSE <<>>)

\* the inner loop over the candidate columns of one row, from candidate i
\* with kw as assigned so far; raised when a truth value cannot be taken
RECURSIVE ScanCandidates(_, _, _, _, _)
ScanCandidates(cols, row, cands, i, kw) ==
    IF i > Len(cands) THEN Ok(kw)
    ELSE LET got == RowGet(cols, row, cands[i])
             v == IF got.kind = "unget" THEN None ELSE got
         IN  IF TruthRaises(v) THEN Raise
             ELSE IF Truthy(v)
                  THEN LET k == PyStr(strip(str(v)))
                       IN  IF Truthy(k) THEN Ok(k)
                           ELSE ScanCandidates(cols, row, cands, i + 1, k)
                  ELSE ScanCandidates(cols, row, cands, i + 1, kw)

\* the loop over the rows from row r, out being the list built so far
RECURSIVE ExtractRows(_, _, _, _)
ExtractRows(df, cands, r, out) ==
    IF r > Len(df.rows) THEN Ok(out)
    ELSE LET s == ScanCandidates(df.columns, df.rows[r], cands, 1, None)
         IN  IF s.raised THEN Raise
             ELSE ExtractRows(df, cands, r + 1,
                              IF Truthy(s.value) THEN Append(out, s.value) ELSE out)

_safe_extract_keywords_from_df(df) ==
    IF df = None \/ Empty(df) THEN Ok(<<>>)
    ELSE LET r == ExtractRows(df, candidate_cols(df.columns), 1, <<>>)
         IN  IF r.raised THEN Raise ELSE Ok(Uniq(r.value, <<>>))

\* ----------------------------------- fetch_youtube_like_keywords_experimental
\* the loop over the rising rows: q = row.get("query"); if q: append str(q).strip()
RECURSIVE RisingQueries(_, _, _)
RisingQueries(df, r, kws) ==
    IF r > Len(df.rows) THEN Ok(kws)
    ELSE LET q == RowGet(df.columns, df.rows[r], "query")
         IN  IF q.kind = "unget" \/ TruthRaises(q) THEN Raise
             ELSE RisingQueries(df, r + 1,
                                IF Truthy(q) THEN Append(kws, PyStr(strip(str(q)))) ELSE kws)

\* rq.get(seed, {}).get("rising")
RisingOf(rq) == IF rq.has_seed THEN rq.rising ELSE None

\* the part of the function after related_queries() has returned rq
YoutubeKeywordsOf(rq) ==
    LET rising_df == RisingOf(rq)
    IN  IF rising_df = None \/ Empty(rising_df) THEN Ok(<<>>)
        ELSE LET r == RisingQueries(rising_df, 1, <<>>)
             IN  IF r.raised THEN Raise
                 ELSE Ok(UniqTruthy(r.value))

\* ------------------------------------------------------------------ inputs
A == <<"a">>
B == <<"b">>

\* command lines: --region, --days, --prefer_youtube
RegionArgs == {"KR", "US", "MX", "JP"}
DaysArgs == {<<"7">>, <<"0">>, <<"-", "1">>, <<"x">>}

\* what a whole-region trending feed may answer
TierCells == {PyStr(A), PyStr(B), PyStr(<<" ", "a">>), None, Unbool}
TierFrames == Frames(<<"title">>, TierCells, MaxRows) \cup Frames(<<"c0">>, {PyStr(A)}, 1)
TierResponses ==
    {[raised |-> TRUE, df |-> None]}
    \cup {[raised |-> FALSE, df |-> d] : d \in {None} \cup TierFrames}

\* what related_queries() may answer under its seed
QueryCells == {PyStr(A), PyStr(<<" ", "a">>), PyStr(B), PyStr(<<>>), PyStr(<<" ">>), None}
ValueCells == {PyInt(150), PyStr(<<"b", "r", "e", "a", "k", "o", "u", "t">>)}
RisingRows == {<<q, v>> : q \in QueryCells, v \in ValueCells}
RisingFrames ==
    { DataFrame(<<"query", "value">>, r) :
        r \in UNION { [1..n -> RisingRows] : n \in 0..MaxRows } }
    \cup Frames(<<"value">>, ValueCells, 1)
RelatedQueries ==
    {[has_seed |-> FALSE, rising |-> None], [has_seed |-> TRUE, rising |-> None]}
    \cup {[has_seed |-> TRUE, rising |-> df] : df \in RisingFrames}

\* ------------------------------------------------------------------- state
VARIABLES
    variant,     \* which script runs: "basic" or "tiered"
    args,        \* the command line: region, days, prefer_youtube
    pc,          \* position in main
    result,      \* the result dict of main, None before it is built
    geo, pn,     \* resolved identifiers
    keywords,    \* main's local keyword list (tiered)
    source,      \* main's local source name (tiered)
    rising,      \* rising_data being iterated (basic)
    idx,         \* next element of the for loop in progress
    io,          \* what was written to stdout (out) and stderr (err)
    exitCode,    \* process exit status, meaningful once pc = "exit"
    calls,       \* every call made on the data source, in order
    ytOut,       \* how the approximation tier ended
    tierOut,     \* how each standard tier ended
    fault,       \* the call whose exception escaped into main's try block, if any
    xdf, xpc, xi, xout, xret, \* a stand-alone run of the extractor
    dloop, dks, dpc, dfirst, dsecond \* a stand-alone run of a seen-set loop

pipeVars == <<variant, args, pc, result, geo, pn, keywords, source, rising, idx,
              io, exitCode, calls, ytOut, tierOut, fault>>
xVars == <<xdf, xpc, xi, xout, xret>>
dVars == <<dloop, dks, dpc, dfirst, dsecond>>
vars == <<pipeVars, xVars, dVars>>

\* faulty variant: log lines go to stdout
log_ToStdout(streams, msg) == [streams EXCEPT !.out = Append(@, msg)]

\* log(msg): one line on stderr
log(streams, msg) == [streams EXCEPT !.err = Append(@, msg)]

\* print(json.dumps(result)): one document on stdout
print(streams, doc) == [streams EXCEPT !.out = Append(@, [json |-> doc])]

REGION_GEO_MAP == [r \in {"KR", "US", "MX"} |-> r]

REGION_PN_MAP ==
    [r \in {"KR", "US", "MX"} |->
        CASE r = "KR" -> "south_korea" [] r = "US" -> "united_states" [] OTHER -> "mexico"]

\* d.get(key, default)
DictGet(d, key, default) == IF key \in DOMAIN d THEN d[key] ELSE default

\* faulty variant: --region is not restricted to its choices
RegionChoices_Any == RegionArgs

\* argparse choices of --region
RegionChoices == {"KR", "US", "MX"}

today_str == "today"

NotCalled == [kind |-> "notcalled", ext |-> Ok(<<>>)]

InitPipe ==
    /\ variant \in {"basic", "tiered"}
    /\ args \in [region : RegionArgs, days : DaysArgs, prefer_youtube : BOOLEAN]
    /\ variant = "basic" => ~args.prefer_youtube
    /\ pc = "parse"
    /\ result = None
    /\ geo = "unset" /\ pn = "unset"
    /\ keywords = <<>> /\ source = "unset"
    /\ rising = None
    /\ idx = 1
    /\ io = [out |-> <<>>, err |-> <<>>]
    /\ exitCode = 0
    /\ calls = <<>>
    /\ ytOut = NotCalled
    /\ tierOut = [k \in 1..3 |-> NotCalled]
    /\ fault = "none"

XIdle ==
    /\ xdf = None /\ xpc = "idle" /\ xi = 1 /\ xout = <<>> /\ xret = Ok(<<>>)

DIdle ==
    /\ dloop = "extractor"
    /\ dks = <<>> /\ dpc = "idle" /\ dfirst = <<>> /\ dsecond = <<>>

Init == InitPipe /\ XIdle /\ DIdle

\* sys.exit(code) / the interpreter ending
Exit(code) == pc' = "exit" /\ exitCode' = code

\* ------------------------------------------- pytrends_fetch_DDONG.py : main
\* parser.parse_args(): --region outside its choices is a usage error, exit 2
DDONG_ParseArgs ==
    /\ variant = "tiered" /\ pc = "parse"
    /\ IF args.region \in RegionChoices
       THEN pc' = "setup" /\ UNCHANGED <<io, exitCode>>
       ELSE io' = log(io, [ev |-> "usage"]) /\ Exit(2)
    /\ UNCHANGED <<variant, args, result, geo, pn, keywords, source, rising, idx,
                   calls, ytOut, tierOut, fault, xVars, dVars>>

\* days = int(args.days), the result dict, the region look-ups, the start log
DDONG_Setup ==
    /\ variant = "tiered" /\ pc = "setup"
    /\ LET days == int(args.days)
       IN  IF days.raised
           THEN /\ io' = log(io, [ev |-> "traceback"])
                /\ Exit(1)
                /\ UNCHANGED <<result, geo, pn>>
           ELSE /\ result' = [region |-> args.region, days |-> days.value,
                              items |-> <<>>, keywords |-> <<>>]
                /\ geo' = DictGet(REGION_GEO_MAP, args.region, "KR")
                /\ pn' = DictGet(REGION_PN_MAP, args.region, "south_korea")
                /\ io' = log(io, [ev |-> "start"])
                /\ pc' = "client"
                /\ UNCHANGED exitCode
    /\ UNCHANGED <<variant, args, keywords, source, rising, idx, calls, ytOut, tierOut, fault, xVars, dVars>>

\* where main goes once the client exists: the approximation tier only on request
AfterClient(prefer_youtube) == IF prefer_youtube THEN "youtube" ELSE "tier1"

\* where an exception inside main's try block goes
DDONG_OnException == "fatal"

\* TrendReq(...), keywords = [], source = "none"
DDONG_Client ==
    /\ variant = "tiered" /\ pc = "client"
    /\ calls' = Append(calls, "TrendReq")
    /\ \E constructed \in BOOLEAN :
         IF constructed
         THEN /\ keywords' = <<>> /\ source' = "none"
              /\ pc' = AfterClient(args.prefer_youtube)
              /\ UNCHANGED fault
         ELSE /\ pc' = DDONG_OnException
              /\ fault' = "TrendReq"
              /\ UNCHANGED <<keywords, source>>
    /\ UNCHANGED <<variant, args, result, geo, pn, rising, idx, io, exitCode,
                   ytOut, tierOut, xVars, dVars>>

\* how the approximation tier may go: an exception out of build_payload or
\* related_queries, or related_queries returning rq
YoutubeRuns ==
    {[at |-> c, exc |-> e, rq |-> None] :
        c \in {"build_payload", "related_queries"}, e \in {"ResponseError", "Exception"}}
    \cup {[at |-> "returned", exc |-> "none", rq |-> q] : q \in RelatedQueries}

\* faulty variant: main does not fall through to the standard tiers
AfterYoutube_NoFallThrough(kws) == "assemble"

\* where main goes after the approximation tier (if not keywords: ...)
AfterYoutube(kws) == IF kws = <<>> THEN "tier1" ELSE "assemble"

\* the prefer_youtube block of main with fetch_youtube_like_keywords_experimental
DDONG_Youtube ==
    /\ variant = "tiered" /\ pc = "youtube"
    /\ \E run \in YoutubeRuns :
         LET io1 == log(io, [ev |-> "yt_try"])
             r == IF run.at = "returned" THEN YoutubeKeywordsOf(run.rq) ELSE Raise
             exc == IF run.at = "returned" THEN "Exception" ELSE run.exc
             counted == run.at = "returned" /\ ~r.raised
                        /\ ~(RisingOf(run.rq) = None \/ Empty(RisingOf(run.rq)))
             io2 == IF counted THEN log(io1, [ev |-> "yt_count", n |-> Len(r.value)]) ELSE io1
         IN  /\ calls' = calls \o (IF run.at = "build_payload" THEN <<"build_payload">>
                                   ELSE <<"build_payload", "related_queries">>)
             /\ IF r.raised
                THEN /\ io' = log(io2, [ev |-> "yt_fail", exc |-> exc])
                     /\ keywords' = <<>>
                     /\ UNCHANGED source
                     /\ ytOut' = [kind |-> "raise", ext |-> Raise]
                ELSE /\ io' = io2
                     /\ keywords' = r.value
                     /\ source' = "youtube_experimental_related_queries"
                     /\ ytOut' = [kind |-> "returned", ext |-> r]
             /\ pc' = AfterYoutube(keywords')
    /\ UNCHANGED <<variant, args, result, geo, pn, rising, idx, exitCode, tierOut, fault, xVars, dVars>>

\* ------------------------------------------------- fetch_trending_keywords
\* faulty variant: the second tier reports the first tier's name
TierNames_Copied ==
    <<"realtime_trending_searches", "realtime_trending_searches", "daily_search_trends">>

TierNames == <<"realtime_trending_searches", "trending_searches", "daily_search_trends">>

TierPc == <<"tier1", "tier2", "tier3">>

\* what the source answered, as the four cases of a tier
ResponseKind(resp) ==
    IF resp.raised THEN "raise"
    ELSE IF resp.df = None THEN "absent"
    ELSE IF Len(resp.df.rows) = 0 THEN "empty"
    ELSE "rows"

\* faulty variant: a tier never returns, the next one is always tried
TierSucceeds_Never(ext) == FALSE

\* faulty variant: a tier returns whatever it extracted, empty or not
TierSucceeds_AnyList(ext) == ~ext.raised

\* if kws: ... return kws, name
TierSucceeds(ext) == ~ext.raised /\ ext.value # <<>>

\* faulty variant: after the last tier the first one is tried again
AfterTierMiss_Retry(k) == IF k < 3 THEN TierPc[k + 1] ELSE "tier1"

\* faulty variant: running out of tiers is treated as a fatal error
AfterTierMiss_Fatal(k) == IF k < 3 THEN TierPc[k + 1] ELSE "fatal"

\* the position after tier k did not return: the next try block, or the final return
AfterTierMiss(k) == IF k < 3 THEN TierPc[k + 1] ELSE "assemble"

\* faulty variant: the exception of a tier is not caught in fetch_trending_keywords
OnTierException_Propagates(k) == "fatal"

\* the except clause of try block k: logged, then on to what follows the block
OnTierException(k) == AfterTierMiss(k)

\* one try block of fetch_trending_keywords, and the assignment of its return in main
Tier(k) ==
    /\ variant = "tiered" /\ pc = TierPc[k]
    /\ \E resp \in TierResponses :
         LET name == TierNames[k]
             ext == IF resp.raised THEN Raise ELSE _safe_extract_keywords_from_df(resp.df)
             io1 == log(io, [ev |-> "try", name |-> name])
         IN  /\ calls' = Append(calls, name)
             /\ tierOut' = [tierOut EXCEPT ![k] = [kind |-> ResponseKind(resp), ext |-> ext]]
             /\ IF TierSucceeds(ext)
                THEN /\ io' = log(io1, [ev |-> "ok", name |-> name, n |-> Len(ext.value)])
                     /\ keywords' = ext.value
                     /\ source' = name
                     /\ pc' = "assemble"
                ELSE /\ io' = log(io1, [ev |-> IF ext.raised THEN "fail" ELSE "empty",
                                        name |-> name])
                     /\ pc' = IF ext.raised THEN OnTierException(k) ELSE AfterTierMiss(k)
                     /\ IF k < 3 THEN UNCHANGED <<keywords, source>>
                        ELSE keywords' = <<>> /\ source' = "none"
    /\ UNCHANGED <<variant, args, result, geo, pn, rising, idx, exitCode, ytOut, fault, xVars, dVars>>

realtime_trending_searches == Tier(1)

trending_searches == Tier(2)

daily_search_trends == Tier(3)

\* the item main builds for a keyword
Item(kw) == [date |-> today_str, keyword |-> kw, traffic |-> PyStr(<<>>)]

\* one turn of "for kw in keywords": an item and its keyword string
DDONG_AppendRow ==
    /\ variant = "tiered" /\ pc = "assemble" /\ idx <= Len(keywords)
    /\ result' = [result EXCEPT !.items = Append(@, Item(keywords[idx])),
                                !.keywords = Append(@, keywords[idx])]
    /\ idx' = idx + 1
    /\ UNCHANGED <<variant, args, pc, geo, pn, keywords, source, rising, io, exitCode,
                   calls, ytOut, tierOut, fault, xVars, dVars>>

\* the completion log after the loop
DDONG_LogComplete ==
    /\ variant = "tiered" /\ pc = "assemble" /\ idx > Len(keywords)
    /\ io' = log(io, [ev |-> "complete", source |-> source, n |-> Len(result.items)])
    /\ pc' = "print"
    /\ UNCHANGED <<variant, args, result, geo, pn, keywords, source, rising, idx, exitCode,
                   calls, ytOut, tierOut, fault, xVars, dVars>>

\* except Exception: log, sys.exit(1)
DDONG_Fatal ==
    /\ variant = "tiered" /\ pc = "fatal"
    /\ io' = log(io, [ev |-> "fatal"])
    /\ Exit(1)
    /\ UNCHANGED <<variant, args, result, geo, pn, keywords, source, rising, idx,
                   calls, ytOut, tierOut, fault, xVars, dVars>>

\* print(json.dumps(result)), then the script ends
DDONG_Print ==
    /\ variant = "tiered" /\ pc = "print"
    /\ io' = print(io, result)
    /\ Exit(0)
    /\ UNCHANGED <<variant, args, result, geo, pn, keywords, source, rising, idx,
                   calls, ytOut, tierOut, fault, xVars, dVars>>

\* ------------------------------------------------- pytrends_fetch.py : main
\* parser.parse_args(): --region outside its choices is a usage error, exit 2
Basic_ParseArgs ==
    /\ variant = "basic" /\ pc = "parse"
    /\ IF args.region \in RegionChoices
       THEN pc' = "setup" /\ UNCHANGED <<io, exitCode>>
       ELSE io' = log(io, [ev |-> "usage"]) /\ Exit(2)
    /\ UNCHANGED <<variant, args, result, geo, pn, keywords, source, rising, idx,
                   calls, ytOut, tierOut, fault, xVars, dVars>>

\* the result dict with int(args.days), the region look-up, the start log
Basic_Setup ==
    /\ variant = "basic" /\ pc = "setup"
    /\ LET days == int(args.days)
       IN  IF days.raised
           THEN /\ io' = log(io, [ev |-> "traceback"])
                /\ Exit(1)
                /\ UNCHANGED <<result, geo>>
           ELSE /\ result' = [region |-> args.region, days |-> days.value,
                              items |-> <<>>, keywords |-> <<>>]
                /\ geo' = DictGet(REGION_GEO_MAP, args.region, "KR")
                /\ io' = log(io, [ev |-> "start"])
                /\ pc' = "fetch"
                /\ UNCHANGED exitCode
    /\ UNCHANGED <<variant, args, pn, keywords, source, rising, idx, calls, ytOut,
                   tierOut, fault, xVars, dVars>>

\* how the acquisition may go: an exception out of one of the three calls, or
\* related_queries returning rq
BasicRuns ==
    {[at |-> c, rq |-> None] : c \in {"TrendReq", "build_payload", "related_queries"}}
    \cup {[at |-> "returned", rq |-> q] : q \in RelatedQueries}

\* the calls made up to and including call c
CallsUpTo(c) ==
    CASE c = "TrendReq" -> <<"TrendReq">>
      [] c = "build_payload" -> <<"TrendReq", "build_payload">>
      [] OTHER -> <<"TrendReq", "build_payload", "related_queries">>

\* faulty variant: the handler swallows the error and the empty document is printed
Basic_OnException_Swallow == "print"

\* where an exception inside main's try block goes
Basic_OnException == "fatal"

\* TrendReq, build_payload, related_queries, rising_data and the branch on it
Basic_Fetch ==
    /\ variant = "basic" /\ pc = "fetch"
    /\ \E run \in BasicRuns :
         /\ calls' = calls \o CallsUpTo(run.at)
         /\ IF run.at # "returned"
            THEN /\ pc' = Basic_OnException
                 /\ fault' = run.at
                 /\ UNCHANGED <<rising, io>>
            ELSE LET rising_data == RisingOf(run.rq)
                 IN  /\ UNCHANGED fault
                     /\ IF rising_data # None /\ ~Empty(rising_data)
                        THEN /\ rising' = rising_data
                             /\ io' = log(io, [ev |-> "found", n |-> Len(rising_data.rows)])
                             /\ pc' = "rows"
                        ELSE /\ io' = log(io, [ev |-> "norising"])
                             /\ pc' = "print"
                             /\ UNCHANGED rising
    /\ UNCHANGED <<variant, args, result, geo, pn, keywords, source, idx, exitCode,
                   ytOut, tierOut, xVars, dVars>>

\* the item main builds for a rising row
Basic_Item(keyword, value) ==
    [date |-> today_str, keyword |-> keyword, traffic |-> PyStr(str(value))]

\* what main appends to result["keywords"] for an item
Basic_KeywordsEntry(item) == item

\* one turn of "for _, row in rising_data.iterrows()"; row['query'] and
\* row['value'] raise KeyError when the column is missing
Basic_AppendRow ==
    /\ variant = "basic" /\ pc = "rows" /\ idx <= Len(rising.rows)
    /\ IF HasCol(rising.columns, "query") /\ HasCol(rising.columns, "value")
       THEN LET row == rising.rows[idx]
                item == Basic_Item(RowGet(rising.columns, row, "query"),
                                   RowGet(rising.columns, row, "value"))
            IN  /\ result' = [result EXCEPT !.items = Append(@, item),
                                            !.keywords = Append(@, Basic_KeywordsEntry(item))]
                /\ idx' = idx + 1
                /\ pc' = IF idx' > Len(rising.rows) THEN "print" ELSE "rows"
                /\ UNCHANGED fault
       ELSE /\ pc' = Basic_OnException
            /\ fault' = "KeyError"
            /\ UNCHANGED <<result, idx>>
    /\ UNCHANGED <<variant, args, geo, pn, keywords, source, rising, io, exitCode,
                   calls, ytOut, tierOut, xVars, dVars>>

\* except Exception: log, sys.exit(1)
Basic_Fatal ==
    /\ variant = "basic" /\ pc = "fatal"
    /\ io' = log(io, [ev |-> "fatal"])
    /\ Exit(1)
    /\ UNCHANGED <<variant, args, result, geo, pn, keywords, source, rising, idx,
                   calls, ytOut, tierOut, fault, xVars, dVars>>

\* print(json.dumps(result)), then the script ends
Basic_Print ==
    /\ variant = "basic" /\ pc = "print"
    /\ io' = print(io, result)
    /\ Exit(0)
    /\ UNCHANGED <<variant, args, result, geo, pn, keywords, source, rising, idx,
                   calls, ytOut, tierOut, fault, xVars, dVars>>

\* ---------------------------------------------------------- the two scripts
Next ==
    \/ DDONG_ParseArgs
    \/ DDONG_Setup
    \/ DDONG_Client
    \/ DDONG_Youtube
    \/ realtime_trending_searches
    \/ trending_searches
    \/ daily_search_trends
    \/ DDONG_AppendRow
    \/ DDONG_LogComplete
    \/ DDONG_Fatal
    \/ DDONG_Print
    \/ Basic_ParseArgs
    \/ Basic_Setup
    \/ Basic_Fetch
    \/ Basic_AppendRow
    \/ Basic_Fatal
    \/ Basic_Print

Spec == Init /\ [][Next]_vars

\* ------------------------- _safe_extract_keywords_from_df, run on its own
\* responses of every shape the extractor is written for
ExtractCells ==
    {PyStr(A), PyStr(<<" ", "a", " ">>), PyStr(B), PyStr(<<" ">>), PyStr(<<>>),
     None, NaN, PyInt(0), PyInt(7), Unbool, Unget}
PairCells == {PyStr(A), PyStr(B), PyStr(<<" ">>), None, Unget}
ExtractFrames ==
    Frames(<<"title">>, ExtractCells, MaxExtractRows)
    \cup Frames(<<"c0">>, ExtractCells, MaxExtractRows)
    \cup Frames(<<"c0", "query">>, PairCells, MaxExtractRows)
    \cup Frames(<<"keyword", "title">>, PairCells, MaxExtractRows)
    \cup {DataFrame(<<>>, <<>>)}

PipeOff ==
    /\ variant = "none"
    /\ args = [region |-> "KR", days |-> <<"7">>, prefer_youtube |-> FALSE]
    /\ pc = "off"
    /\ result = None
    /\ geo = "unset" /\ pn = "unset"
    /\ keywords = <<>> /\ source = "unset"
    /\ rising = None
    /\ idx = 1
    /\ io = [out |-> <<>>, err |-> <<>>]
    /\ exitCode = 0
    /\ calls = <<>>
    /\ ytOut = NotCalled
    /\ tierOut = [k \in 1..3 |-> NotCalled]
    /\ fault = "none"

InitExtract ==
    /\ PipeOff /\ DIdle
    /\ xdf \in {None} \cup ExtractFrames
    /\ xpc = "guard" /\ xi = 1 /\ xout = <<>> /\ xret = Ok(<<>>)

\* faulty variant: only df.empty is tested, which raises on None
X_Guard_NoNoneTest ==
    /\ xpc = "guard"
    /\ IF xdf = None THEN xpc' = "raised" /\ xret' = Raise
       ELSE xpc' = (IF Empty(xdf) THEN "returned" ELSE "rows") /\ UNCHANGED xret
    /\ UNCHANGED <<xdf, xi, xout, pipeVars, dVars>>

\* if df is None or df.empty: return []
X_Guard ==
    /\ xpc = "guard"
    /\ xpc' = IF xdf = None \/ Empty(xdf) THEN "returned" ELSE "rows"
    /\ UNCHANGED <<xdf, xi, xout, xret, pipeVars, dVars>>

\* one turn of "for _, row in df.iterrows()"
X_Row ==
    /\ xpc = "rows" /\ xi <= Len(xdf.rows)
    /\ LET s == ScanCandidates(xdf.columns, xdf.rows[xi], candidate_cols(xdf.columns), 1, None)
       IN  IF s.raised
           THEN xpc' = "raised" /\ xret' = Raise /\ UNCHANGED <<xi, xout>>
           ELSE /\ xout' = IF Truthy(s.value) THEN Append(xout, s.value) ELSE xout
                /\ xi' = xi + 1
                /\ UNCHANGED <<xpc, xret>>
    /\ UNCHANGED <<xdf, pipeVars, dVars>>

\* the seen-set loop and "return uniq"
X_Return ==
    /\ xpc = "rows" /\ xi > Len(xdf.rows)
    /\ xret' = Ok(Uniq(xout, <<>>))
    /\ xpc' = "returned"
    /\ UNCHANGED <<xdf, xi, xout, pipeVars, dVars>>

NextExtract == X_Guard \/ X_Row \/ X_Return

SpecExtract == InitExtract /\ [][NextExtract]_vars

\* the stepwise run ends as the operator the pipelines use says
StepwiseAgrees ==
    xpc \in {"returned", "raised"} => xret = _safe_extract_keywords_from_df(xdf)

\* --------------------------------------- the seen-set loop, run on its own
\* the two copies of the loop: the extractor's and the YouTube-like tier's
DedupLoops == {"extractor", "youtube"}

SeenSetLoop(loop, ks) == IF loop = "youtube" THEN UniqTruthy(ks) ELSE Uniq(ks, <<>>)

DedupValues == {PyStr(A), PyStr(B), PyStr(<<"c">>), PyStr(<<>>)}
DedupLists == UNION { [1..n -> DedupValues] : n \in 0..MaxDedupLen }

InitDedup ==
    /\ PipeOff /\ XIdle
    /\ dloop \in DedupLoops
    /\ dks \in DedupLists
    /\ dpc = "first" /\ dfirst = <<>> /\ dsecond = <<>>

\* the loop applied to a list
D_First ==
    /\ dpc = "first"
    /\ dfirst' = SeenSetLoop(dloop, dks)
    /\ dpc' = "second"
    /\ UNCHANGED <<dloop, dks, dsecond, pipeVars, xVars>>

\* the loop applied to its own output
D_Second ==
    /\ dpc = "second"
    /\ dsecond' = SeenSetLoop(dloop, dfirst)
    /\ dpc' = "done"
    /\ UNCHANGED <<dloop, dks, dfirst, pipeVars, xVars>>

NextDedup == D_First \/ D_Second

SpecDedup == InitDedup /\ [][NextDedup]_vars

\* ================================================================== claims
Logged(msg) == \E i \in 1..Len(io.err) : io.err[i] = msg

Called(name) == \E i \in 1..Len(calls) : calls[i] = name

StandardNames == {"realtime_trending_searches", "trending_searches", "daily_search_trends"}

NameOfTier(k) ==
    CASE k = 1 -> "realtime_trending_searches"
      [] k = 2 -> "trending_searches"
      [] OTHER -> "daily_search_trends"

TierCalled(k) == tierOut[k].kind # "notcalled"

\* tier k was called and its extraction is a non-empty list
TierUsable(k) == TierCalled(k) /\ ~tierOut[k].ext.raised /\ tierOut[k].ext.value # <<>>

\* fetch_trending_keywords has returned into main
FetchReturned ==
    variant = "tiered" /\ TierCalled(1) /\ pc \in {"assemble", "print", "exit"}

ExitedWith(code) == pc = "exit" /\ exitCode = code

EmptyDocument == [region |-> args.region, days |-> int(args.days).value,
                  items |-> <<>>, keywords |-> <<>>]

\* C1: once fetch_trending_keywords has returned, whatever the three tiers
\* answered, a usable tier exists only with every tier before it called and found
\* unusable, and the returned list and name are those of the lowest usable tier;
\* with no usable tier every tier was called.
C1_LowestUsableTierWins ==
    FetchReturned =>
        LET usable == {k \in 1..3 : TierUsable(k)}
        IN  IF usable = {} THEN \A k \in 1..3 : TierCalled(k)
            ELSE LET k == CHOOSE m \in usable : \A n \in usable : m <= n
                 IN  /\ keywords = tierOut[k].ext.value
                     /\ source = NameOfTier(k)
                     /\ \A j \in 1..(k - 1) : TierCalled(j) /\ ~TierUsable(j)

\* tier 1 raised, tier 2 answered rows giving two keywords, and the run returned them
C1_Witness ==
    /\ FetchReturned
    /\ tierOut[1].kind = "raise"
    /\ tierOut[2].kind = "rows"
    /\ keywords = <<PyStr(A), PyStr(B)>>
    /\ source = "trending_searches"

\* C2: in the tiered script, when every tier raised or extracted nothing,
\* fetch_trending_keywords returns ([], "none"), the fatal handler is not entered,
\* and the run ends with exit code 0 and the empty document on stdout.
C2_AllTiersMissStillSucceeds ==
    (variant = "tiered" /\ \A k \in 1..3 : TierCalled(k) /\ ~TierUsable(k)) =>
        /\ keywords = <<>>
        /\ source = "none"
        /\ pc \in {"assemble", "print", "exit"}
        /\ result.items = <<>> /\ result.keywords = <<>>
        /\ pc = "exit" => exitCode = 0 /\ io.out = <<[json |-> EmptyDocument]>>

\* all three tiers missed, one by raising and one by an empty table, and the run ended
C2_Witness ==
    /\ variant = "tiered" /\ pc = "exit"
    /\ \A k \in 1..3 : TierCalled(k) /\ ~TierUsable(k)
    /\ tierOut[1].kind = "raise" /\ tierOut[2].kind = "empty" /\ tierOut[3].kind = "absent"

\* C3: in both scripts, at every point of the append loop and in the document
\* written, items and keywords have the same length and keywords[i] is the
\* keyword of items[i].
C3_KeywordsMirrorItems ==
    result # None =>
        /\ Len(result.items) = Len(result.keywords)
        /\ \A i \in 1..Len(result.items) : result.keywords[i] = result.items[i].keyword

\* C4: stdout never holds anything but JSON documents and never more than one;
\* a run that has ended has exit code 0 exactly when one document was written.
C4_OneDocumentIffExitZero ==
    /\ \A i \in 1..Len(io.out) : DOMAIN io.out[i] = {"json"}
    /\ Len(io.out) <= 1
    /\ pc = "exit" => (exitCode = 0 <=> Len(io.out) = 1)

\* a run that logged its way to the end and wrote its document
C4_Witness ==
    /\ ExitedWith(0) /\ Len(io.out) = 1 /\ Len(io.err) >= 3
    /\ Logged([ev |-> "fail", name |-> "trending_searches"])

\* C5: a supported region resolves to its own geo identifier and feed identifier;
\* any other region ends the run with a non-zero exit before anything is resolved,
\* the client constructed or the source called.
C5_RegionResolvedOrRejected ==
    /\ (args.region \in {"KR", "US", "MX"} /\ geo # "unset") =>
           /\ geo = args.region
           /\ variant = "tiered" =>
                  pn = (CASE args.region = "KR" -> "south_korea"
                          [] args.region = "US" -> "united_states"
                          [] OTHER -> "mexico")
    /\ args.region \notin {"KR", "US", "MX"} =>
           /\ calls = <<>>
           /\ geo = "unset" /\ pn = "unset" /\ result = None
           /\ pc \in {"parse", "exit"}
           /\ pc = "exit" => exitCode # 0 /\ io.out = <<>>

\* an unsupported region was rejected by the tiered script
C5_Witness ==
    variant = "tiered" /\ args.region = "JP" /\ ExitedWith(2) /\ calls = <<>>

\* C6: in the tiered script a tier whose call or extraction raised is logged as
\* failed under its own name, the exception reaches neither main's handler nor the
\* exit code, and the next tier is tried (after the last one the result is
\* ([], "none")).
C6_TierErrorNeverFatal ==
    variant = "tiered" =>
        \A k \in 1..3 :
            (TierCalled(k) /\ tierOut[k].ext.raised) =>
                /\ Logged([ev |-> "fail", name |-> NameOfTier(k)])
                /\ pc # "fatal" /\ fault = "none"
                /\ ~(pc = "exit" /\ exitCode # 0)
                /\ k = 1 => (pc = "tier2" \/ TierCalled(2))
                /\ k = 2 => (pc = "tier3" \/ TierCalled(3))
                /\ k = 3 => (keywords = <<>> /\ source = "none"
                             /\ pc \in {"assemble", "print", "exit"})

\* tier 1 raised in the call, tier 3 raised while its rows were extracted, and
\* the run ended normally
C6_Witness ==
    /\ variant = "tiered" /\ ExitedWith(0)
    /\ tierOut[1].kind = "raise"
    /\ tierOut[3].kind = "rows" /\ tierOut[3].ext.raised

\* C7: the approximation tier runs only under prefer_youtube and before every
\* standard tier; when it raised or returned nothing the run goes on with the
\* first standard tier and does not abort; when it returned keywords no standard
\* tier is called.
C7_YoutubeTierOptInAndFallsThrough ==
    variant = "tiered" =>
        /\ (ytOut.kind # "notcalled" \/ Called("build_payload")) => args.prefer_youtube
        /\ \A i, j \in 1..Len(calls) :
               (calls[i] \in {"build_payload", "related_queries"} /\ calls[j] \in StandardNames)
                   => i < j
        /\ (ytOut.kind = "raise" \/ (ytOut.kind = "returned" /\ ytOut.ext.value = <<>>)) =>
               /\ pc # "fatal" /\ fault = "none"
               /\ ~(pc = "exit" /\ exitCode # 0)
               /\ pc = "tier1" \/ TierCalled(1)
        /\ (ytOut.kind = "returned" /\ ytOut.ext.value # <<>>) =>
               /\ \A k \in 1..3 : ~TierCalled(k)
               /\ \A i \in 1..Len(calls) : calls[i] \notin StandardNames
               /\ keywords = ytOut.ext.value

\* the approximation tier raised, and the first standard tier delivered the result
C7_Witness ==
    /\ variant = "tiered" /\ ExitedWith(0)
    /\ ytOut.kind = "raise"
    /\ TierUsable(1)
    /\ Len(result.items) = 2

C9_FailureStillReturnsEmptyResult ==
    (variant = "basic" /\ pc = "exit"
        /\ fault \in {"TrendReq", "build_payload", "related_queries"}) =>
        /\ exitCode = 0
        /\ io.out = <<[json |-> EmptyDocument]>>

\* the positions of s holding the first occurrence of their value
FirstPositions(s) == {i \in 1..Len(s) : \A j \in 1..(i - 1) : s[j] # s[i]}

\* r lists, in order, the first occurrences of the values of s
IsFirstOccurrences(r, s) ==
    /\ Len(r) = Cardinality(FirstPositions(s))
    /\ \E f \in [1..Len(r) -> FirstPositions(s)] :
           /\ \A a, b \in 1..Len(r) : a < b => f[a] < f[b]
           /\ \A a \in 1..Len(r) : r[a] = s[f[a]]

\* C10 as stated: the extractor returns the keyword of every row, repeats included.
C10_ExtractorKeepsDuplicates ==
    xpc = "returned" => xret.value = xout

\* C10 as amended: the extractor returns the keywords of its rows in row order
\* with repeats removed, each keyword at the place of its first occurrence.
C10_ExtractorReturnsFirstOccurrences ==
    xpc = "returned" => ~xret.raised /\ IsFirstOccurrences(xret.value, xout)

\* two rows gave the same keyword and the extractor returned it once
C10_Witness ==
    /\ xpc = "returned"
    /\ xdf # None /\ Len(xdf.rows) = 2
    /\ xout = <<PyStr(A), PyStr(A)>>
    /\ xret.value = <<PyStr(A)>>

\* a keyword record's keyword is a string, not empty, with no blank at either end
IsCleanKeyword(k) == k.kind = "str" /\ k.s # <<>> /\ Head(k.s) # " " /\ k.s[Len(k.s)] # " "

\* C11: in every document either script writes, the keyword of every item is a
\* non-empty string with no leading or trailing blank, whatever the cells of the
\* source response were.
C11_KeywordsCleanInEveryDocument ==
    \A d \in 1..Len(io.out) :
        \A i \in 1..Len(io.out[d].json.items) :
            IsCleanKeyword(io.out[d].json.items[i].keyword)

\* C15: a --days value that is not a positive integer ("x", "0", "-1") ends the
\* run with a non-zero exit before the client is constructed or the source
\* called, and nothing is written to stdout.
C15_MalformedDaysRejected ==
    args.days \in {<<"x">>, <<"0">>, <<"-", "1">>} =>
        /\ calls = <<>>
        /\ io.out = <<>>
        /\ pc \in {"parse", "setup", "exit"}
        /\ pc = "exit" => exitCode # 0

\* the calls made on the standard tiers, in the order made
StandardCalls == SelectSeq(calls, LAMBDA c : c \in StandardNames)

\* C16: the standard tiers are called in the order realtime_trending_searches,
\* trending_searches, daily_search_trends, each at most once; a tier is called
\* only after every tier before it was called and found unusable; and after a
\* usable tier no further call is made on the source.
C16_TiersInOrderUntilFirstUsable ==
    variant = "tiered" =>
        /\ StandardCalls = SubSeq(<<"realtime_trending_searches", "trending_searches",
                                    "daily_search_trends">>, 1, Len(StandardCalls))
        /\ \A k \in 1..3 : TierCalled(k) <=> k <= Len(StandardCalls)
        /\ \A k \in 1..3 : TierCalled(k) => \A j \in 1..(k - 1) : TierCalled(j) /\ ~TierUsable(j)
        /\ \A k \in 1..3 :
               TierUsable(k) => /\ calls[Len(calls)] = NameOfTier(k)
                                /\ pc \in {"assemble", "print", "exit"}

\* the first two tiers were found unusable and the third one delivered
C16_Witness ==
    /\ variant = "tiered" /\ ExitedWith(0)
    /\ StandardCalls = <<"realtime_trending_searches", "trending_searches", "daily_search_trends">>
    /\ TierUsable(3)

\* main is past the tiers of a run that has not failed
AtCompletion ==
    variant = "tiered" /\ (pc \in {"assemble", "print"} \/ ExitedWith(0)) /\ fault = "none"

\* C19: when the tiered script logs its completion, the source is "none" exactly
\* when the keyword list is empty; otherwise it is the name of the tier whose
\* list it is: the approximation tier's name for its list, a standard tier's own
\* name for that tier's list; and the completion log reports that source.
C19_SourceNamesTheProducingTier ==
    AtCompletion =>
        /\ source = "none" <=> keywords = <<>>
        /\ keywords # <<>> =>
               IF ytOut.kind = "returned" /\ ytOut.ext.value # <<>>
               THEN source = "youtube_experimental_related_queries"
                    /\ keywords = ytOut.ext.value
               ELSE \E k \in 1..3 : /\ TierUsable(k)
                                    /\ source = NameOfTier(k)
                                    /\ keywords = tierOut[k].ext.value
        /\ pc \in {"print", "exit"} =>
               Logged([ev |-> "complete", source |-> source, n |-> Len(keywords)])

\* the approximation tier returned nothing and the second standard tier delivered
C19_Witness ==
    /\ AtCompletion /\ pc = "exit"
    /\ ytOut.kind = "returned" /\ ytOut.ext.value = <<>>
    /\ source = "trending_searches" /\ keywords # <<>>

\* how often a call was made on the source
TimesCalled(name) == Cardinality({i \in 1..Len(calls) : calls[i] = name})

\* how far main is from its end: the statements still ahead of pc ...
StepsAhead ==
    CASE pc = "parse" -> 9
      [] pc = "setup" -> 8
      [] pc = "client" -> 7
      [] pc = "youtube" -> 6
      [] pc = "tier1" -> 5
      [] pc = "tier2" -> 4
      [] pc = "tier3" -> 3
      [] pc = "assemble" -> 2
      [] pc \in {"print", "fatal"} -> 1
      [] OTHER -> 0

\* ... and the turns left of the for loop over keywords
TurnsLeft == IF pc = "assemble" THEN Len(keywords) + 1 - idx ELSE 0

\* C20: in the tiered script every step brings main nearer to its end and every
\* state before the end has a next step, so a run whose source calls return
\* ends; no call on the source is made twice; and the run ends either with exit
\* code 0 and one document on stdout or with a non-zero exit code and none.
C20_TieredRunTerminates ==
    /\ [](variant = "tiered" =>
            /\ pc # "exit" => ENABLED Next
            /\ \A name \in StandardNames \cup {"TrendReq", "build_payload", "related_queries"} :
                   TimesCalled(name) <= 1
            /\ pc = "exit" => \/ exitCode = 0 /\ Len(io.out) = 1
                              \/ exitCode # 0 /\ io.out = <<>>)
    /\ [][variant = "tiered" =>
            \/ StepsAhead' < StepsAhead
            \/ StepsAhead' = StepsAhead /\ TurnsLeft' < TurnsLeft]_vars

\* a run that used the approximation tier and all three standard tiers, and ended
C20_Witness ==
    /\ variant = "tiered" /\ ExitedWith(0)
    /\ Len(calls) = 6
    /\ \A name \in StandardNames \cup {"build_payload", "related_queries"} : TimesCalled(name) = 1

\* C12: handed None or a table with no rows, the extractor returns the empty
\* list and does not raise.
C12_AbsentOrZeroRowsGiveEmptyList ==
    (xpc # "idle" /\ (xdf = None \/ Len(xdf.rows) = 0)) =>
        /\ xpc # "raised"
        /\ xpc = "returned" => xret = Ok(<<>>)

\* the extractor was handed None and returned the empty list
C12_Witness ==
    xdf = None /\ xpc = "returned" /\ xret = Ok(<<>>)

\* no column of the response bears a preferred name
NoPreferredColumn(df) ==
    \A i \in 1..Len(df.columns) : df.columns[i] \notin {"query", "title", "keyword"}

\* the first column of every row holds a non-empty string
FirstColumnHoldsStrings(df) ==
    /\ Len(df.columns) > 0 /\ Len(df.rows) > 0
    /\ \A r \in 1..Len(df.rows) : df.rows[r][1].kind = "str" /\ df.rows[r][1].s # <<>>

\* the strings of the first column, trimmed, in row order
TrimmedFirstColumn(df) == [r \in 1..Len(df.rows) |-> PyStr(strip(df.rows[r][1].s))]

FallbackCase ==
    /\ xpc = "returned" /\ xdf # None
    /\ NoPreferredColumn(xdf) /\ FirstColumnHoldsStrings(xdf)

\* C13 as stated: with no preferred column and non-empty strings in the first
\* column, the extractor returns exactly those strings, trimmed, in row order.
C13_FallbackReturnsEveryString ==
    FallbackCase => xret = Ok(TrimmedFirstColumn(xdf))

\* C13 as amended: with no preferred column and non-empty strings in the first
\* column, the extractor returns those strings trimmed, in row order, the ones
\* blank after trimming left out and each remaining string once, at its first
\* occurrence.
C13_FallbackReturnsDistinctTrimmedStrings ==
    (xpc \in {"returned", "raised"} /\ xdf # None
        /\ NoPreferredColumn(xdf) /\ FirstColumnHoldsStrings(xdf)) =>
        /\ xpc = "returned" /\ ~xret.raised
        /\ IsFirstOccurrences(xret.value,
                              SelectSeq(TrimmedFirstColumn(xdf), LAMBDA k : k.s # <<>>))

\* a single column named c0 holding " a " and "b" gave a and b
C13_Witness ==
    /\ FallbackCase
    /\ xdf.columns = <<"c0">>
    /\ xdf.rows = <<<<PyStr(<<" ", "a", " ">>)>>, <<PyStr(B)>>>>
    /\ xret = Ok(<<PyStr(A), PyStr(B)>>)

\* C14 as stated: each seen-set loop returns the first occurrences of the values
\* of its input, in order, and applied to its own output returns that output.
C14_DedupKeepsEveryDistinctValue ==
    /\ dpc \in {"second", "done"} => IsFirstOccurrences(dfirst, dks)
    /\ dpc = "done" => dsecond = dfirst

\* the non-empty strings of a list, in order
NonEmptyOf(ks) == SelectSeq(ks, LAMBDA k : k.s # <<>>)

\* C14 as amended: the extractor's loop returns the first occurrences of the
\* values of its input, in order; the YouTube-like tier's loop returns the first
\* occurrences of the non-empty values of its input, in order; either loop
\* applied to its own output returns that output.
C14_DedupFirstOccurrencesIdempotent ==
    /\ (dpc \in {"second", "done"} /\ dloop = "extractor") =>
           IsFirstOccurrences(dfirst, dks)
    /\ (dpc \in {"second", "done"} /\ dloop = "youtube") =>
           IsFirstOccurrences(dfirst, NonEmptyOf(dks))
    /\ dpc = "done" => dsecond = dfirst

\* the extractor's loop: a, b, a, c, b gave a, b, c, and a, b, c gave itself
C14_Witness ==
    /\ dpc = "done" /\ dloop = "extractor"
    /\ dks = <<PyStr(A), PyStr(B), PyStr(A), PyStr(<<"c">>), PyStr(B)>>
    /\ dfirst = <<PyStr(A), PyStr(B), PyStr(<<"c">>)>>
    /\ dsecond = dfirst

\* the candidate columns in their priority: the preferred names the response
\* has, then its first column
PriorityColumns(cols) ==
    (IF HasCol(cols, "query") THEN <<"query">> ELSE <<>>)
    \o (IF HasCol(cols, "title") THEN <<"title">> ELSE <<>>)
    \o (IF HasCol(cols, "keyword") THEN <<"keyword">> ELSE <<>>)
    \o <<cols[1]>>

\* a cell holds a usable value: it is not missing (None, NaN, no such cell), not
\* a numeric zero, and not empty or blank as text
HoldsUsableValue(cell) ==
    /\ cell.kind \notin {"none", "nan", "unget"}
    /\ cell.kind = "int" => cell.n # 0
    /\ strip(str(cell)) # <<>>

\* what a row is to contribute: the trimmed text of its first usable candidate
RowContribution(cols, row) ==
    LET P == PriorityColumns(cols)
        usable == {i \in 1..Len(P) : HoldsUsableValue(RowGet(cols, row, P[i]))}
    IN  IF usable = {} THEN <<>>
        ELSE LET i == CHOOSE m \in usable : \A n \in usable : m <= n
             IN  <<PyStr(strip(str(RowGet(cols, row, P[i]))))>>

RECURSIVE Contributions(_, _)
Contributions(df, n) ==
    IF n = 0 THEN <<>> ELSE Contributions(df, n - 1) \o RowContribution(df.columns, df.rows[n])

\* C17: after each row, the list built so far holds, for every row scanned, the
\* trimmed text of the first candidate (query, title, keyword, first column)
\* with a usable value, and nothing for a row without one.
C17_RowEmitsFirstUsableCandidate ==
    (xpc = "rows" \/ (xpc = "returned" /\ xdf # None /\ ~Empty(xdf))) =>
        xout = Contributions(xdf, xi - 1)

\* a row all of whose cells are strings
StringRow(row) == \A c \in 1..Len(row) : row[c].kind = "str"

\* C18: no error leaves the extractor, and when it has ended the keyword of
\* every row of strings is in the list returned, whatever the other rows held.
C18_CellErrorsNeverLeaveExtractor ==
    /\ xpc # "raised"
    /\ (xpc = "returned" /\ xdf # None /\ ~Empty(xdf)) =>
           \A r \in 1..Len(xdf.rows) :
               StringRow(xdf.rows[r]) =>
                   \A i \in 1..Len(RowContribution(xdf.columns, xdf.rows[r])) :
                       \E j \in 1..Len(xret.value) :
                           xret.value[j] = RowContribution(xdf.columns, xdf.rows[r])[i]

====
